---- MODULE Spec2Model ----
(***************************************************************************)
(* Model of the ogg-opus crate: encode (src/src/encode.rs), decode         *)
(* (src/src/decode.rs) and the shared arithmetic (src/src/common.rs).      *)
(*                                                                         *)
(* PCM samples are modelled by their 1-based index in the input (the input *)
(* sample i has the value i, never 0), so that a zero in a frame is always *)
(* synthesized silence.  The Opus primitive is modelled as carrying a      *)
(* frame through unchanged in length and sample order.  The Ogg container  *)
(* is modelled as the sequence of packets written, each with the granule   *)
(* position of its page and the last-in-stream flag.                       *)
(***************************************************************************)
EXTENDS Integers, Sequences, FiniteSets, TLC

(***************************************************************************)
(* Bounds of the model.                                                    *)
(***************************************************************************)
\* longest input, in milliseconds of audio per channel
MaxMs == 38
\* number of audio packets of an arbitrary container handed to decode
MaxPackets == 2
\* largest on-wire granule position tried, in hundreds
MaxGranuleSteps == 4
\* largest value rescaled there and back, besides the two near 2^64
MaxX == 40

(***************************************************************************)
(* Constants of src/src/common.rs.                                         *)
(***************************************************************************)
OGG_OPUS_SPS == 48000
MAX_NUM_CHANNELS == 2
OPUS_MAGIC_HEADER == <<79, 112, 117, 115, 72, 101, 97, 100>>
MAX_FRAME_SAMPLES == 5760
MAX_FRAME_SIZE == MAX_FRAME_SAMPLES * MAX_NUM_CHANNELS
FRAME_TIME_MS == 20
MIN_FRAME_MICROS == 25
\* "OpusTags"
OPUS_TAGS_MAGIC == <<79, 112, 117, 115, 84, 97, 103, 115>>
\* concat!("ogg-opus", " ", CARGO_PKG_VERSION).  OPUS_TAGS indexes 14 vendor
\* bytes, so the version has 5; the version itself is set in Cargo.toml and
\* stands here as "0.0.0"
VENDOR_STR == <<111, 103, 103, 45, 111, 112, 117, 115, 32, 48, 46, 48, 46, 48>>

\* s_ps_to_audiopus: the rates for which it returns Some
Rates == {8000, 12000, 16000, 24000, 48000}

s_ps_to_audiopus(s_ps) == s_ps \in Rates

(***************************************************************************)
(* 64-bit unsigned integers, as 8 little-endian limbs in base 256: the     *)
(* on-wire granule position is a u64 and calc_sr_u64 multiplies it.        *)
(***************************************************************************)
LimbBase == 256
U64Limbs == 8

Pow256 == <<1, 256, 65536, 16777216>>

\* n as u64, for 0 <= n < 2^31
ToU64(n) == [i \in 1..U64Limbs |-> IF i <= 4 THEN (n \div Pow256[i]) % LimbBase ELSE 0]

\* x < 2^31
FitsInt(x) == /\ \A i \in 5..U64Limbs : x[i] = 0
              /\ x[4] < 128

ToNat(x) == x[1] + x[2] * Pow256[2] + x[3] * Pow256[3] + x[4] * Pow256[4]

U64Max == [i \in 1..U64Limbs |-> LimbBase - 1]

RECURSIVE MulLimbs(_, _, _, _)
\* limbs i.. of x * m + carry * 256^(i-1), and last the carry out of 64 bits
MulLimbs(x, m, i, carry) ==
    IF i > U64Limbs
    THEN <<carry>>
    ELSE <<(x[i] * m + carry) % LimbBase>>
             \o MulLimbs(x, m, i + 1, (x[i] * m + carry) \div LimbBase)

\* x * m modulo 2^64
WrappingMul(x, m) == SubSeq(MulLimbs(x, m, 1, 0), 1, U64Limbs)

RECURSIVE DivLimbs(_, _, _, _)
\* limbs 1..i of the quotient of the long division of x by d, rem being
\* the remainder left by the limbs above i
DivLimbs(x, d, i, rem) ==
    IF i = 0
    THEN <<>>
    ELSE DivLimbs(x, d, i - 1, (rem * LimbBase + x[i]) % d)
             \o <<(rem * LimbBase + x[i]) \div d>>

DivSmall(x, d) == DivLimbs(x, d, U64Limbs, 0)

\* a < b on u64 (and on usize, taken as 64 bits wide)
U64Less(a, b) ==
    \E i \in 1..U64Limbs : /\ a[i] < b[i]
                           /\ \A j \in (i + 1)..U64Limbs : a[j] = b[j]

(***************************************************************************)
(* common.rs: calc_sr, calc_sr_u64                                         *)
(***************************************************************************)
\* ((val as u32 * dest_sr) / org_sr) as u16; val is a u16, so the u32
\* product cannot overflow for dest_sr <= 48000
calc_sr(val, org_sr, dest_sr) ==
    LET prod == CHOOSE p \in {WrappingMul(ToU64(val), dest_sr)} : TRUE
    IN  ToNat(DivSmall(prod, org_sr)) % 65536

\* calc_sr_u64 rounding to the nearest instead of down
calc_sr_u64_nearest(val, org_sr, dest_sr) ==
    LET prod == CHOOSE p \in {MulLimbs(val, dest_sr, 1, org_sr \div 2)} : TRUE
    IN  [overflow |-> prod[U64Limbs + 1] # 0,
         value    |-> DivSmall(SubSeq(prod, 1, U64Limbs), org_sr)]

\* (val * dest_sr as u64) / (org_sr as u64): the product overflows for
\* val >= 2^64 / dest_sr; a build with overflow checks panics there, a
\* build without them wraps
calc_sr_u64(val, org_sr, dest_sr) ==
    LET prod == CHOOSE p \in {MulLimbs(val, dest_sr, 1, 0)} : TRUE
    IN  [overflow |-> prod[U64Limbs + 1] # 0,
         value    |-> DivSmall(SubSeq(prod, 1, U64Limbs), org_sr)]

(***************************************************************************)
(* Little-endian fields (byteorder::LittleEndian)                          *)
(***************************************************************************)
write_u16(n) == <<n % 256, (n \div 256) % 256>>

write_u32(n) == <<n % 256, (n \div 256) % 256, (n \div 65536) % 256, (n \div 16777216) % 256>>

\* the u16 at 0-based offset off of data
read_u16(data, off) == data[off + 1] + 256 * data[off + 2]

\* the i16 at 0-based offset off of data
read_i16(data, off) ==
    LET u == read_u16(data, off) IN IF u >= 32768 THEN u - 65536 ELSE u

(***************************************************************************)
(* Rust slices: s[a..b] panics unless a <= b <= s.len()                    *)
(***************************************************************************)
SliceOk(s, a, b) == a <= b /\ b <= Len(s)

Slice(s, a, b) == SubSeq(s, a + 1, b)

Zeros(n) == [i \in 1..n |-> 0]

(***************************************************************************)
(* encode.rs: helpers                                                      *)
(***************************************************************************)
to_samples(S_PS, ms) == (S_PS * ms) \div 1000

\* us is in tens of microseconds (25 is 2.5 ms)
calc_fr_size(us, channels, sps) == ((sps * us) * channels) \div (1000 * 10)

\* the last element of possibles that is <= val, None when there is none
calc_biggest_spills(val, possibles) ==
    LET fits == {i \in 1..Len(possibles) : possibles[i] <= val}
    IN  IF fits = {}
        THEN [some |-> FALSE, val |-> 0]
        ELSE [some |-> TRUE,
              val  |-> possibles[CHOOSE i \in fits : \A j \in fits : j <= i]]

\* is_end_of_stream comparing with > instead of ==
is_end_of_stream_gt(pos, max) == IF pos > max THEN "EndStream" ELSE "NormalPacket"

is_end_of_stream(pos, max) == IF pos = max THEN "EndStream" ELSE "NormalPacket"

granule(S_PS, val) == calc_sr_u64(ToU64(val), S_PS, OGG_OPUS_SPS)

\* InnerEncoder::encode_vec: the Opus primitive, one packet per frame
encode_vec(frame) == [ok |-> TRUE, data |-> frame]

PanicFrame == [ok |-> FALSE, data |-> <<>>]

\* encode_with_skip copying the input to the start of the zeroed buffer
encode_with_skip_front(pcm, pos_a, pos_b, skip_us) ==
    IF pos_a > skip_us
    THEN IF SliceOk(pcm, pos_a - skip_us, pos_b - skip_us)
         THEN encode_vec(Slice(pcm, pos_a - skip_us, pos_b - skip_us))
         ELSE PanicFrame
    ELSE IF pos_b < pos_a
         THEN PanicFrame
         ELSE IF pos_b > skip_us
              THEN IF SliceOk(pcm, 0, pos_b - skip_us)
                   THEN encode_vec([i \in 1..(pos_b - pos_a) |->
                                      IF i <= pos_b - skip_us THEN pcm[i] ELSE 0])
                   ELSE PanicFrame
              ELSE encode_vec(Zeros(pos_b - pos_a))

encode_with_skip(pcm, pos_a, pos_b, skip_us) ==
    IF pos_a > skip_us
    THEN IF SliceOk(pcm, pos_a - skip_us, pos_b - skip_us)
         THEN encode_vec(Slice(pcm, pos_a - skip_us, pos_b - skip_us))
         ELSE PanicFrame
    ELSE IF pos_b < pos_a
         THEN PanicFrame
         ELSE IF pos_b > skip_us
              THEN IF SliceOk(pcm, 0, pos_b - skip_us)
                   THEN encode_vec([i \in 1..(pos_b - pos_a) |->
                                      IF i <= skip_us - pos_a THEN 0
                                      ELSE pcm[i - (skip_us - pos_a)]])
                   ELSE PanicFrame
              ELSE encode_vec(Zeros(pos_b - pos_a))

encode_no_skip(pcm, start, frame_size) ==
    IF SliceOk(pcm, start, start + frame_size)
    THEN encode_vec(Slice(pcm, start, start + frame_size))
    ELSE PanicFrame

\* the 19 bytes of the identification header, pre-skip and rate written
opus_head(NUM_CHANNELS, skip_48, S_PS) ==
    OPUS_MAGIC_HEADER \o <<1, NUM_CHANNELS>> \o write_u16(skip_48 % 65536)
        \o write_u32(S_PS) \o <<0, 0, 0>>

opus_tags == OPUS_TAGS_MAGIC \o write_u32(Len(VENDOR_STR)) \o VENDOR_STR \o <<0, 0, 0, 0>>

\* opus_encoder.lookahead() of libopus for Application::Audio: 2.5 ms of
\* look-ahead plus 4 ms of delay compensation, in samples at the coding rate
lookahead(S_PS) == S_PS \div 400 + S_PS \div 250

(***************************************************************************)
(* State                                                                   *)
(***************************************************************************)
VARIABLES
    debug_build,   \* the build checks integer overflow (debug) or wraps (release)
    S_PS,          \* encode: const generic S_PS
    NUM_CHANNELS,  \* encode: const generic NUM_CHANNELS
    audio,         \* encode: the PCM input
    serial,        \* encode: the stream serial drawn for this call
    enc_pc,        \* encode: "start", "main", "tail", "done", "panic"; "idle" when not called
    counter,       \* encode: index of the main loop
    last_sample,   \* encode: position of the tail loop
    packets,       \* encode: the packets handed to packet_writer.write_packet, in order
    TARGET_SPS,    \* decode: const generic TARGET_SPS
    dec_pc,        \* decode: "first", "second", "loop", or the outcome of the call
    fp,            \* decode: the first packet read
    play_data,     \* decode: play_data.channels, 0 before check_fp has passed
    dec_data,      \* decode: dec_data (pre_skip at the target rate, gain)
    sp,            \* decode: the second packet read
    rd,            \* decode: number of container packets read
    rem_skip,      \* decode: rem_skip
    dec_absgsp,    \* decode: dec_absgsp
    buffer,        \* decode: the PCM output
    cur,           \* decode: locals of the last iteration of the packet loop
    sc             \* calc_sr_u64 there and back: the arguments and the results

enc_vars == <<S_PS, NUM_CHANNELS, audio, serial, enc_pc, counter, last_sample, packets>>

dec_vars == <<TARGET_SPS, dec_pc, fp, play_data, dec_data, sp, rd, rem_skip, dec_absgsp, buffer, cur>>

vars == <<debug_build, enc_vars, dec_vars, sc>>

NoPacket == [some |-> FALSE, data |-> <<>>, absgp |-> ToU64(0), last |-> FALSE]

NoScale == [pc |-> "idle", x |-> ToU64(0), a |-> OGG_OPUS_SPS, b |-> OGG_OPUS_SPS,
            y |-> ToU64(0), z |-> ToU64(0), wrapped |-> FALSE]

NoCur == [read |-> FALSE, out_size |-> 0, last |-> FALSE, appended |-> FALSE,
          skip_before |-> 0, absgsp |-> -1, trimmed_end |-> 0]

(***************************************************************************)
(* encode.rs: encode                                                       *)
(***************************************************************************)
frame_samples == to_samples(S_PS, FRAME_TIME_MS)

frame_size == frame_samples * NUM_CHANNELS

skip_us == lookahead(S_PS)

tot_samples == Len(audio) + skip_us

skip_48 == calc_sr(skip_us, S_PS, OGG_OPUS_SPS)

\* (tot_samples as f32 / frame_size as f32).floor(): exact while
\* tot_samples < 2^24, which the bounds keep it
max == tot_samples \div frame_size

calc(c) == c * frame_size

calc_samples(c) == c * frame_samples

frame_sizes ==
    <<calc_fr_size(MIN_FRAME_MICROS, NUM_CHANNELS, S_PS),
      calc_fr_size(50, NUM_CHANNELS, S_PS),
      calc_fr_size(100, NUM_CHANNELS, S_PS),
      calc_fr_size(200, NUM_CHANNELS, S_PS)>>

MAX_25_SIZE == calc_fr_size(MIN_FRAME_MICROS, MAX_NUM_CHANNELS, OGG_OPUS_SPS)

Min(a, b) == IF a <= b THEN a ELSE b

write_packet(data, ser, info, absgp) ==
    [data |-> data, serial |-> ser, info |-> info, absgp |-> absgp]

\* the two header packets written in the other order
header_packets_swapped ==
    <<write_packet(opus_tags, serial, "EndPage", ToU64(0)),
      write_packet(opus_head(NUM_CHANNELS, skip_48, S_PS), serial, "EndPage", ToU64(0))>>

\* lines 163-164: the two header packets
header_packets ==
    <<write_packet(opus_head(NUM_CHANNELS, skip_48, S_PS), serial, "EndPage", ToU64(0)),
      write_packet(opus_tags, serial, "EndPage", ToU64(0))>>

\* where the call continues once the main loop is over (lines 186-195, 244)
AfterMain ==
    /\ last_sample' = calc(max)
    /\ enc_pc' = IF calc(max) < tot_samples THEN "tail" ELSE "done"

\* lines 93-164: set-up and the two headers
EncHeaders ==
    /\ enc_pc = "start"
    /\ s_ps_to_audiopus(S_PS)
    /\ packets' = header_packets
    /\ counter' = 0
    /\ IF max > 0
       THEN enc_pc' = "main" /\ last_sample' = last_sample
       ELSE AfterMain
    /\ UNCHANGED <<debug_build, S_PS, NUM_CHANNELS, audio, serial, dec_vars, sc>>

EncPanic ==
    /\ enc_pc' = "panic"
    /\ UNCHANGED <<counter, last_sample, packets>>

\* lines 167-181: one iteration of the 20 ms loop
EncMain ==
    /\ enc_pc = "main"
    /\ counter < max
    /\ LET pos_a == calc(counter)
           pos_b == calc(counter + 1)
           new_buffer == encode_with_skip(audio, pos_a, pos_b, skip_us)
           g == granule(S_PS, skip_us + calc_samples(counter + 1))
       IN  IF ~new_buffer.ok \/ (g.overflow /\ debug_build)
           THEN EncPanic
           ELSE /\ packets' = Append(packets,
                                     write_packet(new_buffer.data, serial,
                                                  is_end_of_stream(pos_b, tot_samples),
                                                  g.value))
                /\ counter' = counter + 1
                /\ IF counter + 1 < max
                   THEN enc_pc' = "main" /\ last_sample' = last_sample
                   ELSE AfterMain
    /\ UNCHANGED <<debug_build, S_PS, NUM_CHANNELS, audio, serial, dec_vars, sc>>

\* lines 221-229: the zero-filled scratch buffer of the last packet
final_frame(pcm, last, rem_samples) ==
    LET last_audio_s == last - Min(last, skip_us)
        rem_sk == skip_us - Min(last, skip_us)
    IN  IF /\ SliceOk(Zeros(MAX_25_SIZE), rem_sk, rem_samples)
           /\ SliceOk(pcm, last_audio_s, Len(pcm))
           /\ rem_samples - rem_sk = Len(pcm) - last_audio_s
        THEN encode_no_skip([i \in 1..MAX_25_SIZE |->
                                IF rem_sk < i /\ i <= rem_samples
                                THEN pcm[last_audio_s + (i - rem_sk)]
                                ELSE 0],
                            0, frame_sizes[1])
        ELSE PanicFrame

\* lines 195-238: one iteration of the tail loop
EncTail ==
    /\ enc_pc = "tail"
    /\ last_sample < tot_samples
    /\ LET rem_samples == tot_samples - last_sample
           last_audio_s == last_sample - Min(last_sample, skip_us)
           spill == calc_biggest_spills(rem_samples, frame_sizes)
       IN  IF spill.some
           THEN LET enc == IF last_sample >= skip_us
                           THEN encode_no_skip(audio, last_audio_s, spill.val)
                           ELSE encode_with_skip(audio, last_sample,
                                                 last_sample + spill.val, skip_us)
                    new_last == last_sample + spill.val
                    g == granule(S_PS, new_last \div NUM_CHANNELS)
                IN  IF ~enc.ok \/ (g.overflow /\ debug_build)
                    THEN EncPanic
                    ELSE /\ packets' = Append(packets,
                                              write_packet(enc.data, serial,
                                                           is_end_of_stream(new_last, tot_samples),
                                                           g.value))
                         /\ last_sample' = new_last
                         /\ enc_pc' = IF new_last < tot_samples THEN "tail" ELSE "done"
                         /\ counter' = counter
           ELSE LET enc == final_frame(audio, last_sample, rem_samples)
                    g == granule(S_PS, (skip_us + Len(audio)) \div NUM_CHANNELS)
                IN  IF ~enc.ok \/ (g.overflow /\ debug_build)
                    THEN EncPanic
                    ELSE /\ packets' = Append(packets,
                                              write_packet(enc.data, serial, "EndStream", g.value))
                         /\ last_sample' = tot_samples
                         /\ enc_pc' = "done"
                         /\ counter' = counter
    /\ UNCHANGED <<debug_build, S_PS, NUM_CHANNELS, audio, serial, dec_vars, sc>>

(***************************************************************************)
(* The Ogg container between the two calls (ogg::PacketWriter and          *)
(* ogg::PacketReader): a packet is read back with the granule position of  *)
(* the page it ends in, which is that of the last packet of the page, and  *)
(* is last_in_stream when it was written with EndStream.                   *)
(***************************************************************************)
absgp_page(pkts, i) ==
    LET ends == {j \in i..Len(pkts) : pkts[j].info # "NormalPacket"}
    IN  IF ends = {}
        THEN pkts[Len(pkts)].absgp
        ELSE pkts[CHOOSE j \in ends : \A k \in ends : j <= k].absgp

\* reader.read_packet() on the stream written by encode, after n packets
read_packet(pkts, n) ==
    IF n < Len(pkts)
    THEN [some |-> TRUE, data |-> pkts[n + 1].data, absgp |-> absgp_page(pkts, n + 1),
          last |-> pkts[n + 1].info = "EndStream"]
    ELSE NoPacket

(***************************************************************************)
(* decode.rs: check_fp, check_sp, decode                                   *)
(***************************************************************************)
\* check_sp requiring the 8 bytes of the magic only
check_sp_magic_only(pkt) ==
    IF Len(pkt.data) < 8
    THEN FALSE
    ELSE SubSeq(pkt.data, 1, 8) = OPUS_TAGS_MAGIC

check_sp(pkt) ==
    IF Len(pkt.data) < 12
    THEN FALSE
    ELSE SubSeq(pkt.data, 1, 8) = OPUS_TAGS_MAGIC

check_fp(TARGET, pkt) ==
    IF Len(pkt.data) < 19
    THEN [ok |-> FALSE, channels |-> 0, pre_skip |-> 0, gain |-> 0]
    ELSE IF SubSeq(pkt.data, 1, 8) # OPUS_MAGIC_HEADER
    THEN [ok |-> FALSE, channels |-> 0, pre_skip |-> 0, gain |-> 0]
    ELSE IF pkt.data[9] # 1
    THEN [ok |-> FALSE, channels |-> 0, pre_skip |-> 0, gain |-> 0]
    ELSE [ok |-> TRUE,
          channels |-> pkt.data[10],
          pre_skip |-> calc_sr(read_u16(pkt.data, 10), OGG_OPUS_SPS, TARGET),
          gain |-> read_i16(pkt.data, 16)]

\* decoder.decode: samples per channel of the frame the packet carries
decoder_decode(data, chans) == Len(data) \div chans

NoDecData == [pre_skip |-> 0, gain |-> 0]

\* lines 60-73: the first packet
DecFirst(pkt) ==
    /\ dec_pc = "first"
    /\ fp' = pkt
    /\ rd' = IF pkt.some THEN rd + 1 ELSE rd
    /\ LET chk == check_fp(TARGET_SPS, pkt)
       IN  IF pkt.some /\ chk.ok
           THEN /\ play_data' = chk.channels
                /\ dec_data' = [pre_skip |-> chk.pre_skip, gain |-> chk.gain]
                /\ dec_pc' = IF chk.channels \in {1, 2} THEN "second" ELSE "MalformedAudio"
           ELSE /\ dec_pc' = "MalformedAudio"
                /\ UNCHANGED <<play_data, dec_data>>
    /\ UNCHANGED <<sc, debug_build, enc_vars, TARGET_SPS, sp, rem_skip, dec_absgsp, buffer, cur>>

\* lines 76-88: the second packet, then the locals of the packet loop
DecSecond(pkt) ==
    /\ dec_pc = "second"
    /\ sp' = pkt
    /\ rd' = IF pkt.some THEN rd + 1 ELSE rd
    /\ IF pkt.some /\ check_sp(pkt)
       THEN /\ dec_pc' = "loop"
            /\ rem_skip' = dec_data.pre_skip
            /\ dec_absgsp' = 0
            /\ buffer' = <<>>
       ELSE /\ dec_pc' = "MalformedAudio"
            /\ UNCHANGED <<rem_skip, dec_absgsp, buffer>>
    /\ UNCHANGED <<sc, debug_build, enc_vars, TARGET_SPS, fp, play_data, dec_data, cur>>

\* lines 90-114: one iteration of the packet loop
DecPacket(pkt) ==
    /\ dec_pc = "loop"
    /\ pkt.some
    /\ rd' = rd + 1
    /\ IF Len(pkt.data) = 0
       THEN \* audiopus::packet::Packet::try_from rejects an empty packet
            /\ dec_pc' = "OpusError"
            /\ cur' = NoCur
            /\ UNCHANGED <<rem_skip, dec_absgsp, buffer>>
       ELSE
       \E out_size \in {decoder_decode(pkt.data, play_data)},
          g \in {calc_sr_u64(pkt.absgp, OGG_OPUS_SPS, TARGET_SPS)} :
       LET total == dec_absgsp + out_size
           \* absgsp once cast to usize, -1 when it is 2^31 or more
           absgsp == IF FitsInt(g.value) THEN ToNat(g.value) ELSE -1
           trim == pkt.last /\ absgsp # -1 /\ total > absgsp
           full_end == out_size * play_data
           trimmed_end == IF trim THEN full_end - (total - absgsp) ELSE full_end
           locals == [read |-> TRUE, out_size |-> out_size, last |-> pkt.last,
                      appended |-> FALSE, skip_before |-> rem_skip,
                      absgsp |-> IF pkt.last /\ rem_skip < out_size THEN absgsp ELSE -1,
                      trimmed_end |-> trimmed_end]
       IN  /\ dec_absgsp' = total
           /\ IF rem_skip < out_size
              THEN IF \/ pkt.last /\ g.overflow /\ debug_build
                      \* trimmed_end -= ... below zero: a panic with overflow
                      \* checks, else a wrapped end beyond temp_buffer
                      \/ trimmed_end < 0
                      \* temp_buffer[rem_skip..trimmed_end]
                      \/ ~(rem_skip <= trimmed_end /\ trimmed_end <= MAX_FRAME_SIZE)
                   THEN /\ dec_pc' = "panic"
                        /\ cur' = locals
                        /\ UNCHANGED <<rem_skip, buffer>>
                   ELSE /\ buffer' = buffer \o Slice(pkt.data, rem_skip, trimmed_end)
                        /\ rem_skip' = 0
                        /\ cur' = [locals EXCEPT !.appended = TRUE]
                        /\ dec_pc' = "loop"
              ELSE /\ rem_skip' = rem_skip - out_size
                   /\ cur' = locals
                   /\ dec_pc' = "loop"
                   /\ UNCHANGED buffer
    /\ UNCHANGED <<sc, debug_build, enc_vars, TARGET_SPS, fp, play_data, dec_data, sp>>

\* lines 90, 120: the container is exhausted, Ok((buffer, play_data))
DecEnd ==
    /\ dec_pc = "loop"
    /\ dec_pc' = "ok"
    /\ UNCHANGED <<sc, debug_build, enc_vars, TARGET_SPS, fp, play_data, dec_data, sp, rd,
                   rem_skip, dec_absgsp,
                   buffer, cur>>

(***************************************************************************)
(* Spec: encode a PCM buffer, then decode the stream at the same rate.     *)
(***************************************************************************)
Serials == {7, 1000003}

\* the input lengths tried, in samples per channel: every quarter of a
\* millisecond (two samples at 8 kHz, three at 12 kHz) up to MaxMs
Lengths(rate) == {k * (rate \div 4000) : k \in 0..(4 * MaxMs)}

DecInit ==
    /\ dec_pc = "first"
    /\ fp = NoPacket
    /\ play_data = 0
    /\ dec_data = NoDecData
    /\ sp = NoPacket
    /\ rd = 0
    /\ rem_skip = 0
    /\ dec_absgsp = 0
    /\ buffer = <<>>
    /\ cur = NoCur

Init ==
    /\ debug_build \in BOOLEAN
    /\ S_PS \in Rates
    /\ NUM_CHANNELS \in 1..MAX_NUM_CHANNELS
    /\ \E n \in Lengths(S_PS) : audio = [i \in 1..(n * NUM_CHANNELS) |-> i]
    /\ serial \in Serials
    /\ enc_pc = "start"
    /\ counter = 0
    /\ last_sample = 0
    /\ packets = <<>>
    /\ TARGET_SPS = S_PS
    /\ DecInit
    /\ sc = NoScale

RtFirst == enc_pc = "done" /\ dec_pc = "first" /\ DecFirst(read_packet(packets, rd))

RtSecond == enc_pc = "done" /\ dec_pc = "second" /\ DecSecond(read_packet(packets, rd))

RtPacket == enc_pc = "done" /\ dec_pc = "loop" /\ DecPacket(read_packet(packets, rd))

RtEnd == enc_pc = "done" /\ dec_pc = "loop" /\ ~read_packet(packets, rd).some /\ DecEnd

Next ==
    \/ EncHeaders
    \/ EncMain
    \/ EncTail
    \/ RtFirst
    \/ RtSecond
    \/ RtPacket
    \/ RtEnd

Spec == Init /\ [][Next]_vars

(***************************************************************************)
(* SpecDec: decode of an arbitrary container.                              *)
(***************************************************************************)
\* pre-skip fields tried in the first packet (312 is what encode writes)
PreSkips == {0, 312}

\* opus_head with the version byte set to ver and, for bad > 0, byte bad
\* of the magic zeroed
HeadBytes(ver, ch, ps, bad) ==
    [i \in 1..19 |-> IF i = bad THEN 0
                     ELSE IF i = 9 THEN ver
                     ELSE opus_head(ch, ps, OGG_OPUS_SPS)[i]]

Prefix(bytes, n) == IF n <= Len(bytes) THEN SubSeq(bytes, 1, n) ELSE bytes \o Zeros(n - Len(bytes))

HeaderPacket(bytes) == [some |-> TRUE, data |-> bytes, absgp |-> ToU64(0), last |-> FALSE]

FirstPackets ==
    {NoPacket} \cup
    {HeaderPacket(Prefix(HeadBytes(ver, ch, ps, bad), n)) :
        ver \in {0, 1, 2}, ch \in 0..3, ps \in PreSkips, bad \in {0, 1, 8}, n \in {0, 10, 18, 19, 21}}

TagBytes(bad) == [i \in 1..Len(opus_tags) |-> IF i = bad THEN 0 ELSE opus_tags[i]]

SecondPackets ==
    {NoPacket} \cup
    {HeaderPacket(Prefix(TagBytes(bad), n)) : bad \in {0, 1, 8}, n \in {0, 8, 11, 12, 30}}

\* frame durations of the audio packets tried, in units of 2.5 ms
FrameUnits == {1, 2}

OutSizes(rate) == {(rate \div 400) * u : u \in FrameUnits}

\* 2^49: times 48000 it exceeds 64 bits, times 8000 it does not
TwoTo49 == [i \in 1..U64Limbs |-> IF i = 7 THEN 2 ELSE 0]

\* on-wire granule positions tried: every 100 from 0, and two near 2^64
Granules == {ToU64(k * 100) : k \in 0..MaxGranuleSteps} \cup {TwoTo49, U64Max}

AudioPacket(n, ch, g, l) ==
    [some |-> TRUE, data |-> [i \in 1..(n * ch) |-> i], absgp |-> g, last |-> l]

\* the packets the container may hold next: an empty one, or a frame of one
\* of the durations, last in the stream (with any granule position) or not
AudioPackets(rate, ch) ==
    {AudioPacket(0, ch, ToU64(0), FALSE)} \cup
    {AudioPacket(n, ch, ToU64(0), FALSE) : n \in OutSizes(rate)} \cup
    {AudioPacket(n, ch, g, TRUE) : n \in OutSizes(rate), g \in Granules}

InitDec ==
    /\ debug_build \in BOOLEAN
    /\ TARGET_SPS \in Rates
    /\ S_PS = TARGET_SPS
    /\ NUM_CHANNELS = 1
    /\ audio = <<>>
    /\ serial = 0
    /\ enc_pc = "idle"
    /\ counter = 0
    /\ last_sample = 0
    /\ packets = <<>>
    /\ DecInit
    /\ sc = NoScale

ArbFirst == dec_pc = "first" /\ \E pkt \in FirstPackets : DecFirst(pkt)

ArbSecond == dec_pc = "second" /\ \E pkt \in SecondPackets : DecSecond(pkt)

ArbPacket ==
    /\ rd < 2 + MaxPackets
    /\ dec_pc = "loop"
    /\ \E pkt \in AudioPackets(TARGET_SPS, play_data) : DecPacket(pkt)

ArbEnd == DecEnd

NextDec ==
    \/ ArbFirst
    \/ ArbSecond
    \/ ArbPacket
    \/ ArbEnd

SpecDec == InitDec /\ [][NextDec]_vars

(***************************************************************************)
(* SpecScale: calc_sr_u64 from rate a to rate b and back.                  *)
(***************************************************************************)
ScaleInputs == {ToU64(n) : n \in 0..MaxX} \cup {TwoTo49, U64Max}

InitScale ==
    /\ debug_build \in BOOLEAN
    /\ S_PS = OGG_OPUS_SPS
    /\ TARGET_SPS = OGG_OPUS_SPS
    /\ NUM_CHANNELS = 1
    /\ audio = <<>>
    /\ serial = 0
    /\ enc_pc = "idle"
    /\ counter = 0
    /\ last_sample = 0
    /\ packets = <<>>
    /\ DecInit
    /\ \E x \in ScaleInputs, a \in Rates, b \in Rates :
          sc = [pc |-> "start", x |-> x, a |-> a, b |-> b, y |-> ToU64(0), z |-> ToU64(0),
                wrapped |-> FALSE]

\* calc_sr_u64(x, a, b)
ScaleThere ==
    /\ sc.pc = "start"
    /\ \E r \in {calc_sr_u64(sc.x, sc.a, sc.b)} :
          IF r.overflow /\ debug_build
          THEN sc' = [sc EXCEPT !.pc = "panic"]
          ELSE sc' = [sc EXCEPT !.pc = "there", !.y = r.value, !.wrapped = r.overflow]
    /\ UNCHANGED <<debug_build, enc_vars, dec_vars>>

\* calc_sr_u64(y, b, a)
ScaleBack ==
    /\ sc.pc = "there"
    /\ \E r \in {calc_sr_u64(sc.y, sc.b, sc.a)} :
          IF r.overflow /\ debug_build
          THEN sc' = [sc EXCEPT !.pc = "panic"]
          ELSE sc' = [sc EXCEPT !.pc = "back", !.z = r.value,
                                !.wrapped = sc.wrapped \/ r.overflow]
    /\ UNCHANGED <<debug_build, enc_vars, dec_vars>>

NextScale ==
    \/ ScaleThere
    \/ ScaleBack

SpecScale == InitScale /\ [][NextScale]_vars

(***************************************************************************)
(* Properties                                                              *)
(***************************************************************************)
\* the call has written its headers
Encoding == enc_pc \in {"main", "tail", "done", "panic"}

LastIdx == Len(packets)

RECURSIVE Offset(_)
\* position on the lookahead-shifted timeline at which audio packet i starts
Offset(i) == IF i <= 3 THEN 0 ELSE Offset(i - 1) + Len(packets[i - 1].data)

\* the sample at position p (from 1) of the lookahead-shifted timeline
Expected(p) ==
    IF p <= skip_us THEN 0
    ELSE IF p <= tot_samples THEN audio[p - skip_us]
    ELSE 0

DecReturned == dec_pc \in {"ok", "MalformedAudio", "OpusError", "panic"}

\* C1: decoding, at the encode rate, the stream encode made of a non-empty
\* buffer returns as many interleaved samples as were encoded, and the
\* channel count.
C1_RoundTripLength ==
    (enc_pc = "done" /\ Len(audio) > 0 /\ DecReturned) =>
        /\ dec_pc = "ok"
        /\ Len(buffer) = Len(audio)
        /\ play_data = NUM_CHANNELS

\* C2: the packet written with the end-of-stream flag carries the granule
\* position of total_samples (input length plus lookahead, per channel) at
\* 48 kHz, whichever loop wrote it.
C2_EosGranuleIsTotal ==
    Encoding =>
        \A i \in 3..LastIdx :
            packets[i].info = "EndStream" =>
                packets[i].absgp = ToU64(((tot_samples \div NUM_CHANNELS) * OGG_OPUS_SPS) \div S_PS)

\* C3: decode of a container that passes the two header checks never panics.
C3_DecodeNeverPanics == dec_pc # "panic"

BadFirst(pkt) ==
    \/ ~pkt.some
    \/ Len(pkt.data) < 19
    \/ SubSeq(pkt.data, 1, 8) # <<79, 112, 117, 115, 72, 101, 97, 100>>
    \/ pkt.data[9] # 1
    \/ pkt.data[10] \notin {1, 2}

BadSecond(pkt) ==
    \/ ~pkt.some
    \/ Len(pkt.data) < 12
    \/ SubSeq(pkt.data, 1, 8) # <<79, 112, 117, 115, 84, 97, 103, 115>>

NothingDecoded == dec_pc = "MalformedAudio" /\ buffer = <<>> /\ ~cur.read /\ dec_absgsp = 0

\* C4: a first packet that is absent, shorter than 19 bytes, without the
\* magic "OpusHead", of a version other than 1 or of a channel count other
\* than 1 and 2, and a second packet that is absent, shorter than 12 bytes or
\* without the magic "OpusTags", make decode return MalformedAudio with no
\* audio packet decoded and no PCM.
C4_BadHeadersAreMalformed ==
    /\ (dec_pc # "first" /\ BadFirst(fp)) => (NothingDecoded /\ ~sp.some)
    /\ (dec_pc \notin {"first", "second"} /\ ~BadFirst(fp) /\ BadSecond(sp)) => NothingDecoded

C4_Witness ==
    /\ dec_pc = "MalformedAudio"
    /\ ~BadFirst(fp)
    /\ sp.some
    /\ Len(sp.data) = 11

\* C5: the first packet written is the 19-byte identification header
\* (magic, version 1, the channel count, mapping family 0), the second the
\* comment header (magic, vendor string, no user comment), both with
\* EndPage and granule position 0; every later packet is an audio packet,
\* and all packets carry the serial of the call.
C5_HeadersFirst ==
    Encoding =>
        /\ LastIdx >= 2
        /\ Len(packets[1].data) = 19
        /\ SubSeq(packets[1].data, 1, 8) = <<79, 112, 117, 115, 72, 101, 97, 100>>
        /\ packets[1].data[9] = 1
        /\ packets[1].data[10] = NUM_CHANNELS
        /\ packets[1].data[19] = 0
        /\ SubSeq(packets[2].data, 1, 8) = <<79, 112, 117, 115, 84, 97, 103, 115>>
        /\ SubSeq(packets[2].data, 9, 12) = <<Len(VENDOR_STR), 0, 0, 0>>
        /\ SubSeq(packets[2].data, 13, 12 + Len(VENDOR_STR)) = VENDOR_STR
        /\ SubSeq(packets[2].data, 13 + Len(VENDOR_STR), Len(packets[2].data)) = <<0, 0, 0, 0>>
        /\ \A i \in 1..2 : packets[i].info = "EndPage" /\ packets[i].absgp = ToU64(0)
        /\ \A i \in 3..LastIdx : packets[i].info \in {"NormalPacket", "EndStream"}
        /\ \A i \in 1..LastIdx : packets[i].serial = serial

C5_Witness ==
    /\ enc_pc = "done"
    /\ NUM_CHANNELS = 2
    /\ LastIdx >= 5
    /\ serial = 1000003

\* C6: the granule positions of the audio packets of one call increase
\* strictly in the order the packets are written.
C6_GranuleIncreases ==
    Encoding =>
        \A i \in 3..(LastIdx - 1) : U64Less(packets[i].absgp, packets[i + 1].absgp)

\* x + 1 = y on u64
U64Succ(x, y) == MulLimbs(x, 1, 1, 1) = y \o <<0>>

C8_SampleCoverage ==
    (enc_pc = "done" /\ dec_pc = "first") =>
        /\ \A i \in 3..LastIdx : \A off \in {Offset(i)} :
              /\ \A j \in 1..Len(packets[i].data) : packets[i].data[j] = Expected(off + j)
              /\ off + Len(packets[i].data) > tot_samples =>
                    /\ i = LastIdx
                    /\ packets[i].info = "EndStream"
                    /\ off < tot_samples
                    /\ tot_samples - off < (S_PS \div 400) * NUM_CHANNELS
        /\ Offset(LastIdx + 1) >= tot_samples

C8_Witness ==
    /\ enc_pc = "done"
    /\ dec_pc = "first"
    /\ counter >= 1
    /\ LastIdx >= 5
    /\ Offset(LastIdx + 1) > tot_samples
    /\ Len(audio) > 0

\* C9: when the packet flagged last in the stream is appended and the total
\* T of samples per channel decoded so far exceeds the end position E its
\* granule position declares, T - E samples per channel are cut from the
\* end of the frame; otherwise nothing is cut.
C9_TailTrim ==
    (dec_pc \in {"loop", "ok"} /\ cur.read /\ cur.appended) =>
        IF cur.last /\ cur.absgsp # -1 /\ dec_absgsp > cur.absgsp
        THEN cur.trimmed_end = (cur.out_size - (dec_absgsp - cur.absgsp)) * play_data
        ELSE cur.trimmed_end = cur.out_size * play_data

C10_State ==
    /\ enc_pc = "main" => calc(counter) <= tot_samples
    /\ enc_pc = "tail" => last_sample < tot_samples
    /\ Encoding =>
          \A i \in 3..LastIdx :
              /\ packets[i].info = "EndStream" => (i = LastIdx /\ enc_pc = "done")
              /\ i < LastIdx => (packets[i].info = "NormalPacket" /\ Len(packets[i].data) > 0)
    /\ (enc_pc = "done" /\ tot_samples > 0) =>
          /\ LastIdx >= 3
          /\ packets[LastIdx].info = "EndStream"
          /\ last_sample = tot_samples

C10_Step ==
    enc_pc = "tail" =>
        \/ enc_pc' = "panic"
        \/ /\ last_sample' > last_sample
           /\ last_sample' <= tot_samples
           /\ enc_pc' = IF last_sample' = tot_samples THEN "done" ELSE "tail"

\* C10: a successful call writes exactly one packet with the end-of-stream
\* flag, and writes it last, when the position reaches total_samples; every
\* earlier audio packet is a normal packet of at least one sample; each
\* iteration of the tail loop moves the position forward and never beyond
\* total_samples.
C10_OneEndOfStream == []C10_State /\ [][C10_Step]_vars

C10_Witness ==
    /\ enc_pc = "done"
    /\ counter >= 1
    /\ LastIdx >= 6
    /\ packets[LastIdx].info = "EndStream"
    /\ Offset(LastIdx + 1) = tot_samples

====
